---- MODULE Spec2Model ----
(***************************************************************************)
(* Model of the forecast server (src/src/main.rs): the weather handler     *)
(* with its coordinate resolution cache (get_lat_long over the cities      *)
(* table and the geocoding client), the forecast client, and the stats     *)
(* handler behind the basic-auth extractor.                                *)
(*                                                                         *)
(* Every request is an independent task.  A task takes one step per await  *)
(* point of its handler, so steps of different tasks interleave exactly    *)
(* where the code can be suspended.                                        *)
(***************************************************************************)
EXTENDS Integers, Sequences, FiniteSets, TLC

(* ------------------------------ bounds --------------------------------- *)

\* concurrent request tasks
NumTasks == 2

\* requests served in one behaviour, over all tasks
MaxReqs == 3

\* longest candidate list in a geocoding response
MaxCand == 2

\* longest hourly series in a forecast response
MaxHours == 1
MaxSeries == 2

(* ------------------------------ values --------------------------------- *)

Tasks == 1..NumTasks

\* City names as the caller supplies them; they differ only in case.
Names == {"paris", "Paris"}

\* struct LatLong: the coordinates the geocoding provider may answer with
LatLong == {[lat |-> 48, lng |-> 2], [lat |-> 45, lng |-> 4]}

\* the value of a task's `ll` before it is bound
NoLL == [lat |-> 0, lng |-> 0]

\* sequences over S of length at most n
RECURSIVE SeqsUpTo(_, _)
SeqsUpTo(S, n) ==
    IF n = 0 THEN {<< >>}
    ELSE LET shorter == SeqsUpTo(S, n - 1)
         IN  shorter \cup {Append(s, x) : s \in {q \in shorter : Len(q) = n - 1}, x \in S}

\* What `reqwest::get(..).await.ok()?.json().await.ok()?` can produce in
\* fetch_lat_long: ok is FALSE when the request or the JSON decoding fails,
\* otherwise results is the decoded GeoResponse.results.
GeoResponse ==
    {[ok |-> FALSE, results |-> << >>]} \cup
    {[ok |-> TRUE, results |-> r] : r \in SeqsUpTo(LatLong, MaxCand)}

\* struct Hourly, as decoded from a well-formed answer of the forecast
\* provider: a time and a temperature for each of up to MaxHours hours.
Hourly ==
    {[time |-> [i \in 1..k |-> "00:00"], temperature_2m |-> [i \in 1..k |-> 10]] :
        k \in 0..MaxHours}

\* struct Hourly, as decoded from any answer that parses: the two vectors are
\* decoded independently and vary in length and in content, up to MaxSeries
\* entries each.
LongHourly ==
    {[time |-> t, temperature_2m |-> v] :
        t \in SeqsUpTo({"00:00", "01:00"}, MaxSeries), v \in SeqsUpTo({10, 9}, MaxSeries)}

LongWeatherResponse == {[ok |-> TRUE, hourly |-> h] : h \in LongHourly}

\* What fetch_weather's request can produce: ok is FALSE when the request or
\* the JSON decoding fails, otherwise hourly is the decoded WeatherResponse.
WeatherResponse ==
    {[ok |-> FALSE, hourly |-> [time |-> << >>, temperature_2m |-> << >>]]} \cup
    {[ok |-> TRUE, hourly |-> h] : h \in Hourly}

\* The Authorization header of a stats request: absent, not a well-formed
\* Basic credential, or a decoded (username, password) pair.
Credentials ==
    {[header |-> h, username |-> "", password |-> ""] : h \in {"absent", "malformed"}} \cup
    {[header |-> "basic", username |-> u, password |-> p] :
        u \in {"forecast", ""}, p \in {"forecast", ""}}

\* enum Error
ErrorKinds == {"NoResultsFound", "FetchWeather", "Unauthorized", "Database"}

(* ------------------------- storage layer ------------------------------- *)

\* The cities table has no uniqueness constraint on name (the table
\* definition is not part of the sources; the design states it).
SchemaUniqueName == FALSE

\* ASCII lower-casing of the modelled names
Lower(name) == IF name = "Paris" THEN "paris" ELSE name

\* Variant: the comparison folds case (lower(name) = lower($1)).
SelectFolded(s, name) == {i \in DOMAIN s : Lower(s[i].name) = Lower(name)}

\* Variant: the comparison never matches (the wrong value is bound to $1).
SelectNothing(s, name) == {}

\* Variant: the statement has no WHERE clause.
SelectAll(s, name) == DOMAIN s

\* WHERE name = $1 : the rows whose name is exactly the bound string.
Select(s, name) == {i \in DOMAIN s : s[i].name = name}

\* Variant: the statement ends in ON CONFLICT DO NOTHING over name.
PutIfAbsent(s, name, c) ==
    IF \E i \in DOMAIN s : s[i].name = name
    THEN s
    ELSE Append(s, [name |-> name, lat |-> c.lat, lng |-> c.lng])

\* Variant: the statement overwrites the coordinates of the rows of that name
\* (ON CONFLICT DO UPDATE).
PutUpsert(s, name, c) ==
    IF \E i \in DOMAIN s : s[i].name = name
    THEN [i \in DOMAIN s |->
            IF s[i].name = name THEN [name |-> name, lat |-> c.lat, lng |-> c.lng] ELSE s[i]]
    ELSE Append(s, [name |-> name, lat |-> c.lat, lng |-> c.lng])

\* Variant: the name is stored lower-cased, the SELECT compares it as given.
PutFolded(s, name, c) == Append(s, [name |-> Lower(name), lat |-> c.lat, lng |-> c.lng])

\* INSERT INTO cities (name, lat, lng) VALUES ($1, $2, $3): a new row with
\* the next id; ids are the positions in the sequence.
Put(s, name, c) == Append(s, [name |-> name, lat |-> c.lat, lng |-> c.lng])

\* The INSERT is refused when the table forbids a second row of that name.
Rejected(s, name) == SchemaUniqueName /\ Select(s, name) # {}

\* Variant: the columns are read in the wrong order.
RowLatLongSwapped(row) == [lat |-> row.lng, lng |-> row.lat]

\* FromRow for LatLong: the lat, lng columns of a row.
RowLatLong(row) == [lat |-> row.lat, lng |-> row.lng]

\* LIMIT of the stats query
StatsLimit == 10

\* Variant: ORDER BY id (ascending), the oldest rows are listed.
RecentCitiesOldestFirst(s) ==
    LET n == IF Len(s) < StatsLimit THEN Len(s) ELSE StatsLimit
    IN  [k \in 1..n |-> s[k].name]

\* SELECT name FROM cities ORDER BY id DESC LIMIT 10
RecentCities(s) ==
    LET n == IF Len(s) < StatsLimit THEN Len(s) ELSE StatsLimit
    IN  [k \in 1..n |-> s[Len(s) + 1 - k].name]

(* --------------------------- pure helpers ------------------------------ *)

\* Variant: the last candidate is taken (into_iter().last()).
LastCandidate(r) ==
    IF ~r.ok \/ r.results = << >> THEN NoLL ELSE r.results[Len(r.results)]

\* Variant: an empty candidate list yields default coordinates
\* (unwrap_or_default) instead of None.
FirstCandidateOrDefault(r) ==
    IF ~r.ok THEN NoLL
    ELSE IF r.results = << >> THEN [lat |-> 48, lng |-> 2] ELSE r.results[1]

\* res.results.into_iter().next(), with every failure folded into None
\* (represented by NoLL).
FirstCandidate(r) == IF ~r.ok \/ r.results = << >> THEN NoLL ELSE r.results[1]

\* impl From<sqlx::Error> for Error
FromSqlx == "Database"

\* .ok_or(Error::NoResultsFound)
NoMatch == "NoResultsFound"

\* Variant: the early return on a cached row is missing.
AfterLookupNoReturn(failed, rows) == IF failed THEN "failed" ELSE "miss"

\* Variant: fetch_one instead of fetch_optional, an absent row is an error.
AfterLookupFetchOne(failed, rows) ==
    IF failed \/ rows = {} THEN "failed" ELSE "hit"

\* Where get_lat_long continues after the SELECT: the `?` returns on a
\* storage error, `if let Some(ll)` returns on a row, otherwise the
\* geocoding client is called.
AfterLookup(failed, rows) ==
    IF failed THEN "failed" ELSE IF rows # {} THEN "hit" ELSE "miss"

\* Variant: the result of the INSERT is discarded (no `?`).
AfterInsertIgnored(failed) == "ok"

\* Where get_lat_long continues after the INSERT: the `?` returns on a
\* storage error, otherwise Ok(ll).
AfterInsert(failed) == IF failed THEN "failed" ELSE "ok"

\* Variant: get_lat_long acquires a connection of its own at its start and
\* keeps it until it returns, so it is kept over the geocoding call.
HeldAfterWholeCall(to) == to = "miss"

\* Whether a task still has a pool connection once its statement has
\* completed with outcome `to`: the executor of every statement is the pool
\* itself (fetch_optional(pool), execute(pool), fetch_all(&app.pool)), which
\* takes a connection for the statement and gives it back when the
\* statement's future completes, whatever its result.
HeldAfter(to) == FALSE

\* Variant: series of different lengths give no forecasts at all.
ZipStrict(t, v) ==
    IF Len(t) = Len(v)
    THEN [i \in 1..Len(t) |-> [date |-> t[i], temperature |-> v[i]]]
    ELSE << >>

\* WeatherView::new: time zipped with temperature_2m.
Zip(t, v) ==
    LET n == IF Len(t) < Len(v) THEN Len(t) ELSE Len(v)
    IN  [i \in 1..n |-> [date |-> t[i], temperature |-> v[i]]]

\* Variant: only the username is compared.
AuthorizedUserOnly(c) ==
    /\ c.header = "basic"
    /\ c.username = "forecast"

\* the expected credential pair of the extractor
Authorized(c) ==
    /\ c.header = "basic"
    /\ c.username = "forecast"
    /\ c.password = "forecast"

\* AUTH_SCHEME_VALUE, as the header (name, scheme, realm)
Challenge ==
    [name |-> "www-authenticate", scheme |-> "Basic",
     realm |-> "Please enter your credentials"]

\* The Display text of the sqlx::Error carried by Error::Database.
SqlxDetail == "error returned from database"

\* Variant: the 401 response carries no challenge.
IntoResponseNoChallenge(e) ==
    CASE e = "NoResultsFound" ->
            [status |-> 404, headers |-> {}, body |-> "no results found", log |-> ""]
      [] e = "FetchWeather" ->
            [status |-> 405, headers |-> {}, body |-> "failed to fetch weather", log |-> ""]
      [] e = "Unauthorized" ->
            [status |-> 401, headers |-> {}, body |-> "unauthorized", log |-> ""]
      [] e = "Database" ->
            [status |-> 500, headers |-> {}, body |-> "internal server error",
             log |-> SqlxDetail]

\* Variant: the text of the database error is sent to the caller.
IntoResponseLeaky(e) ==
    CASE e = "NoResultsFound" ->
            [status |-> 404, headers |-> {}, body |-> "no results found", log |-> ""]
      [] e = "FetchWeather" ->
            [status |-> 405, headers |-> {}, body |-> "failed to fetch weather", log |-> ""]
      [] e = "Unauthorized" ->
            [status |-> 401, headers |-> {Challenge}, body |-> "unauthorized", log |-> ""]
      [] e = "Database" ->
            [status |-> 500, headers |-> {}, body |-> SqlxDetail, log |-> SqlxDetail]

\* impl IntoResponse for Error: status, extra headers and body of the
\* response, and what eprintln! writes to the server's stderr.
IntoResponse(e) ==
    CASE e = "NoResultsFound" ->
            [status |-> 404, headers |-> {}, body |-> "no results found", log |-> ""]
      [] e = "FetchWeather" ->
            [status |-> 405, headers |-> {}, body |-> "failed to fetch weather", log |-> ""]
      [] e = "Unauthorized" ->
            [status |-> 401, headers |-> {Challenge}, body |-> "unauthorized", log |-> ""]
      [] e = "Database" ->
            [status |-> 500, headers |-> {}, body |-> "internal server error",
             log |-> SqlxDetail]

\* The response of a handler that returned Ok: the rendered template.
Page == [status |-> 200, headers |-> {}, body |-> "html", log |-> ""]

\* Result<View, Error> as a response
Respond(e) == IF e = "none" THEN Page ELSE IntoResponse(e)

(* ------------------------------- state --------------------------------- *)

VARIABLES
    store,      \* the cities table: rows in id order
    pc,         \* per task: the await point it is suspended at
    city,       \* per task: the name the request carries
    ll,         \* per task: the local `ll` of get_lat_long
    out,        \* per task: the coordinates get_lat_long returned to weather
    cred,       \* per task: the credential the User extractor accepted
    conn,       \* per task: a statement of the task has a pool connection
    \* history, recorded to state the properties:
    prov,       \* per row: what its inserting task had observed
    geo,        \* per task: the geocoding call of this request
    rows,       \* per task: coordinates the table held for its name at its SELECT
    known,      \* per task: a get_lat_long for its name had returned Ok
                \* before its request started
    calls,      \* per task: operations performed during this request
    resolved,   \* names for which some get_lat_long has returned Ok
    raced,      \* names for which two calls of get_lat_long have been between
                \* their SELECT and their INSERT at the same time
    recent,     \* the names for which get_lat_long has returned Ok, the latest
                \* such return first
    first,      \* per name: what the first get_lat_long to return Ok returned
    geoOk,      \* per name: geocoding calls that yielded coordinates
    lost,       \* names for which an INSERT has failed
    ret,        \* the return of get_lat_long made by the last step, if any
    resp,       \* the response sent by the last step, if any
    nreq        \* requests started so far

vars ==
    << store, pc, city, ll, out, cred, conn, prov, geo, rows, known, calls, resolved, raced,
       recent, first, geoOk, lost, ret, resp, nreq >>

\* the history of returns, geocoding calls and failed INSERTs
hist == << recent, first, geoOk, lost >>

\* Rows the table holds when the server starts on a database that earlier
\* runs have filled: one row short of the LIMIT of the stats query, the
\* oldest of them for a name that requests carry.
Earlier ==
    << "paris", "oslo", "rome", "bern", "riga", "kyiv", "york", "lyon", "bonn" >>

\* every name a row can have
AllNames == Names \cup {Earlier[i] : i \in DOMAIN Earlier}

\* get_lat_long(n) returns Ok(c): n becomes the most recently resolved name,
\* and c is what its first successful call returned unless there was one.
Returned(n, c) ==
    /\ recent' = << n >> \o SelectSeq(recent, LAMBDA m : m # n)
    /\ first' = IF first[n] = NoLL THEN [first EXCEPT ![n] = c] ELSE first

NoGeo == [called |-> FALSE, arg |-> "", ok |-> FALSE, empty |-> TRUE, first |-> NoLL]

NoWeather == [ok |-> FALSE, hourly |-> [time |-> << >>, temperature_2m |-> << >>]]

NoCred == [header |-> "none", username |-> "", password |-> ""]

NoCalls == [lookup |-> 0, geocode |-> 0, insert |-> 0, forecast |-> 0, query |-> 0]

\* What is recorded about a call of get_lat_long by task t when it returns:
\* its argument and result, the storage fault it met, the coordinates the
\* table held for the name at its SELECT, the geocoding call, the number of
\* rows before the returning step, and whether the table had the name when
\* the INSERT ran.
Frame(t) ==
    [name |-> city[t], res |-> "none", out |-> NoLL, faultAt |-> "none",
     rows |-> rows[t], known |-> known[t], geo |-> geo[t],
     calls |-> calls[t], size |-> Len(store), dup |-> FALSE]

NoRet ==
    [name |-> "", res |-> "none", out |-> NoLL, faultAt |-> "none",
     rows |-> {}, known |-> FALSE, geo |-> NoGeo,
     calls |-> NoCalls, size |-> 0, dup |-> FALSE]

\* What is recorded about a request of task t when its response is sent:
\* the request, the Error or the rendered list, the forecast response, the
\* operations performed, and whether get_lat_long had returned coordinates.
Sent(t, kind, c, e, v, w, n) ==
    [kind |-> kind, city |-> city[t], cred |-> c, err |-> e, view |-> v,
     wx |-> w, calls |-> n, got |-> out[t] # NoLL, http |-> Respond(e)]

NoResp ==
    [kind |-> "none", city |-> "", cred |-> NoCred, err |-> "none",
     view |-> << >>, wx |-> NoWeather, calls |-> NoCalls, got |-> FALSE,
     http |-> [status |-> 0, headers |-> {}, body |-> "", log |-> ""]]

Init ==
    /\ store = << >>
    /\ pc = [t \in Tasks |-> "idle"]
    /\ city = [t \in Tasks |-> ""]
    /\ ll = [t \in Tasks |-> NoLL]
    /\ out = [t \in Tasks |-> NoLL]
    /\ cred = [t \in Tasks |-> NoCred]
    /\ conn = [t \in Tasks |-> FALSE]
    /\ prov = << >>
    /\ geo = [t \in Tasks |-> NoGeo]
    /\ rows = [t \in Tasks |-> {}]
    /\ known = [t \in Tasks |-> FALSE]
    /\ calls = [t \in Tasks |-> NoCalls]
    /\ resolved = {}
    /\ raced = {}
    /\ recent = << >>
    /\ first = [n \in AllNames |-> NoLL]
    /\ geoOk = [n \in Names |-> 0]
    /\ lost = {}
    /\ ret = NoRet
    /\ resp = NoResp
    /\ nreq = 0

\* The task's request is over: its locals are dropped.
Finish(t) ==
    /\ pc' = [pc EXCEPT ![t] = "idle"]
    /\ city' = [city EXCEPT ![t] = ""]
    /\ ll' = [ll EXCEPT ![t] = NoLL]
    /\ out' = [out EXCEPT ![t] = NoLL]
    /\ cred' = [cred EXCEPT ![t] = NoCred]
    /\ geo' = [geo EXCEPT ![t] = NoGeo]
    /\ rows' = [rows EXCEPT ![t] = {}]
    /\ known' = [known EXCEPT ![t] = FALSE]
    /\ calls' = [calls EXCEPT ![t] = NoCalls]

(* ------------------------------ weather -------------------------------- *)

\* GET /weather?city=n : the handler is entered and get_lat_long issues its
\* SELECT.
Weather(t, n) ==
    /\ pc[t] = "idle"
    /\ nreq < MaxReqs
    /\ nreq' = nreq + 1
    /\ pc' = [pc EXCEPT ![t] = "lookup"]
    /\ city' = [city EXCEPT ![t] = n]
    /\ known' = [known EXCEPT ![t] = n \in resolved]
    /\ conn' = [conn EXCEPT ![t] = TRUE]
    /\ ret' = NoRet
    /\ resp' = NoResp
    /\ UNCHANGED << store, ll, out, cred, prov, geo, rows, calls, resolved, raced,
                    recent, first, geoOk, lost >>

\* get_lat_long, the SELECT completes.  Without ORDER BY the row that
\* fetch_optional yields among several matching ones is the database's choice.
Lookup(t) ==
    /\ pc[t] = "lookup"
    /\ \E failed \in BOOLEAN :
        LET found == Select(store, city[t])
            to == AfterLookup(failed, found)
            held == {[lat |-> store[i].lat, lng |-> store[i].lng] :
                        i \in {j \in DOMAIN store : store[j].name = city[t]}}
            now == [calls[t] EXCEPT !.lookup = @ + 1]
            frame == [Frame(t) EXCEPT !.rows = held, !.calls = now,
                                      !.faultAt = IF failed THEN "lookup" ELSE "none"]
        IN  /\ conn' = [conn EXCEPT ![t] = HeldAfter(to)]
            /\ IF to = "failed"
               THEN /\ ret' = [frame EXCEPT !.res = FromSqlx]
                    /\ resp' = Sent(t, "weather", NoCred, FromSqlx, << >>, NoWeather, now)
                    /\ Finish(t)
                    /\ UNCHANGED << resolved, raced, recent, first >>
               ELSE IF to = "hit"
               THEN \E i \in found :
                    /\ ret' = [frame EXCEPT !.res = "Ok", !.out = RowLatLong(store[i])]
                    /\ pc' = [pc EXCEPT ![t] = "forecast"]
                    /\ out' = [out EXCEPT ![t] = RowLatLong(store[i])]
                    /\ calls' = [calls EXCEPT ![t] = now]
                    /\ resolved' = resolved \cup {city[t]}
                    /\ Returned(city[t], RowLatLong(store[i]))
                    /\ resp' = NoResp
                    /\ UNCHANGED << city, ll, cred, geo, rows, known, raced >>
               ELSE /\ pc' = [pc EXCEPT ![t] = "geocode"]
                    /\ rows' = [rows EXCEPT ![t] = held]
                    /\ raced' = raced \cup
                           {n \in {city[t]} : \E u \in Tasks \ {t} :
                               pc[u] \in {"geocode", "insert"} /\ city[u] = n}
                    /\ calls' = [calls EXCEPT ![t] = now]
                    /\ ret' = NoRet
                    /\ resp' = NoResp
                    /\ UNCHANGED << city, ll, out, cred, geo, known, resolved, recent, first >>
    /\ UNCHANGED << store, prov, geoOk, lost, nreq >>

\* the name as it goes into the geocoding request: format!("...name={city}...")
GeoQuery(name) == name

\* get_lat_long, fetch_lat_long(name) completes.
FetchLatLong(t) ==
    /\ pc[t] = "geocode"
    /\ \E r \in GeoResponse :
        LET c == FirstCandidate(r)
            g == [called |-> TRUE, arg |-> GeoQuery(city[t]), ok |-> r.ok,
                  empty |-> Len(r.results) = 0,
                  first |-> IF Len(r.results) = 0 THEN NoLL ELSE r.results[1]]
            now == [calls[t] EXCEPT !.geocode = @ + 1]
        IN  /\ IF c = NoLL
               THEN /\ ret' = [Frame(t) EXCEPT !.res = NoMatch, !.geo = g, !.calls = now]
                    /\ resp' = Sent(t, "weather", NoCred, NoMatch, << >>, NoWeather, now)
                    /\ Finish(t)
                    /\ UNCHANGED conn
               ELSE /\ pc' = [pc EXCEPT ![t] = "insert"]
                    /\ ll' = [ll EXCEPT ![t] = c]
                    /\ geo' = [geo EXCEPT ![t] = g]
                    /\ calls' = [calls EXCEPT ![t] = now]
                    /\ conn' = [conn EXCEPT ![t] = TRUE]
                    /\ ret' = NoRet
                    /\ resp' = NoResp
                    /\ UNCHANGED << city, out, cred, rows, known >>
            /\ geoOk' = IF r.ok /\ Len(r.results) > 0
                        THEN [geoOk EXCEPT ![city[t]] = @ + 1]
                        ELSE geoOk
    /\ UNCHANGED << store, prov, resolved, raced, recent, first, lost, nreq >>

\* get_lat_long, the INSERT completes.  A statement that fails leaves the
\* table as it was.
Insert(t) ==
    /\ pc[t] = "insert"
    /\ \E failed \in BOOLEAN :
        LET bad == failed \/ Rejected(store, city[t])
            to == AfterInsert(bad)
            after == IF bad THEN store ELSE Put(store, city[t], ll[t])
            grew == Len(after) > Len(store)
            now == [calls[t] EXCEPT !.insert = @ + 1]
            frame == [Frame(t) EXCEPT !.calls = now,
                                      !.faultAt = IF failed THEN "insert" ELSE "none",
                                      !.dup = \E i \in DOMAIN store : store[i].name = city[t]]
        IN  /\ store' = after
            /\ conn' = [conn EXCEPT ![t] = HeldAfter(to)]
            /\ prov' = IF grew
                       THEN Append(prov, [missed |-> rows[t] = {}, geocoded |-> geo[t].called])
                       ELSE prov
            /\ IF to = "failed"
               THEN /\ ret' = [frame EXCEPT !.res = FromSqlx]
                    /\ resp' = Sent(t, "weather", NoCred, FromSqlx, << >>, NoWeather, now)
                    /\ Finish(t)
                    /\ lost' = lost \cup {city[t]}
                    /\ UNCHANGED << resolved, recent, first >>
               ELSE /\ ret' = [frame EXCEPT !.res = "Ok", !.out = ll[t]]
                    /\ pc' = [pc EXCEPT ![t] = "forecast"]
                    /\ out' = [out EXCEPT ![t] = ll[t]]
                    /\ ll' = [ll EXCEPT ![t] = NoLL]
                    /\ geo' = [geo EXCEPT ![t] = NoGeo]
                    /\ rows' = [rows EXCEPT ![t] = {}]
                    /\ known' = [known EXCEPT ![t] = FALSE]
                    /\ calls' = [calls EXCEPT ![t] = now]
                    /\ resolved' = resolved \cup {city[t]}
                    /\ Returned(city[t], ll[t])
                    /\ resp' = NoResp
                    /\ UNCHANGED << city, cred, lost >>
    /\ UNCHANGED << raced, geoOk, nreq >>

\* weather, after fetch_weather(ll) has produced w: the Result is turned
\* into the response and the handler is over.
Render(t, w, now) ==
    /\ resp' = IF ~w.ok
                THEN Sent(t, "weather", NoCred, "FetchWeather", << >>, w, now)
                ELSE Sent(t, "weather", NoCred, "none",
                          Zip(w.hourly.time, w.hourly.temperature_2m), w, now)
    /\ Finish(t)
    /\ ret' = NoRet
    /\ UNCHANGED << store, conn, prov, resolved, raced, hist, nreq >>

\* Variant: the forecast of a city already in the table is served from a
\* cache, the forecast client is not called.
FetchWeatherCached(t) ==
    /\ pc[t] = "forecast"
    /\ \E w \in WeatherResponse :
        Render(t, w, IF calls[t].geocode = 0
                     THEN calls[t]
                     ELSE [calls[t] EXCEPT !.forecast = @ + 1])

\* Variant: a failed forecast call is repeated once.
FetchWeatherRetry(t) ==
    /\ pc[t] = "forecast"
    /\ \E w \in WeatherResponse :
        IF ~w.ok /\ calls[t].forecast = 0
        THEN /\ calls' = [calls EXCEPT ![t].forecast = @ + 1]
             /\ ret' = NoRet
             /\ resp' = NoResp
             /\ UNCHANGED << store, pc, city, ll, out, cred, conn, prov, geo, rows,
                             known, resolved, raced, hist, nreq >>
        ELSE Render(t, w, [calls[t] EXCEPT !.forecast = @ + 1])

\* weather, fetch_weather(ll) completes and the view is built.
FetchWeather(t) ==
    /\ pc[t] = "forecast"
    /\ \E w \in WeatherResponse :
        Render(t, w, [calls[t] EXCEPT !.forecast = @ + 1])

(* ------------------------------- stats --------------------------------- *)

\* GET /stats : the User extractor runs before the handler; on Ok the handler
\* is entered and issues its SELECT.
FromRequestParts(t, c) ==
    /\ pc[t] = "idle"
    /\ nreq < MaxReqs
    /\ nreq' = nreq + 1
    /\ IF Authorized(c)
       THEN /\ pc' = [pc EXCEPT ![t] = "query"]
            /\ cred' = [cred EXCEPT ![t] = c]
            /\ conn' = [conn EXCEPT ![t] = TRUE]
            /\ resp' = NoResp
       ELSE /\ resp' = Sent(t, "stats", c, "Unauthorized", << >>, NoWeather, NoCalls)
            /\ UNCHANGED << pc, cred, conn >>
    /\ ret' = NoRet
    /\ UNCHANGED << store, city, ll, out, prov, geo, rows, known, calls, resolved, raced,
                    hist >>

\* stats, the SELECT completes.
Stats(t) ==
    /\ pc[t] = "query"
    /\ \E failed \in BOOLEAN :
        LET now == [calls[t] EXCEPT !.query = @ + 1]
            c == cred[t]
        IN  /\ resp' = IF failed
                       THEN Sent(t, "stats", c, FromSqlx, << >>, NoWeather, now)
                       ELSE Sent(t, "stats", c, "none", RecentCities(store), NoWeather, now)
            /\ conn' = [conn EXCEPT ![t] = HeldAfter(IF failed THEN "failed" ELSE "ok")]
    /\ Finish(t)
    /\ ret' = NoRet
    /\ UNCHANGED << store, prov, resolved, raced, hist, nreq >>

Next ==
    \/ \E t \in Tasks, n \in Names : Weather(t, n)
    \/ \E t \in Tasks : Lookup(t)
    \/ \E t \in Tasks : FetchLatLong(t)
    \/ \E t \in Tasks : Insert(t)
    \/ \E t \in Tasks : FetchWeather(t)
    \/ \E t \in Tasks, c \in Credentials : FromRequestParts(t, c)
    \/ \E t \in Tasks : Stats(t)

Spec == Init /\ [][Next]_vars

\* The server started on the table that earlier runs have left.
StatsInit ==
    /\ store = [i \in DOMAIN Earlier |-> [name |-> Earlier[i], lat |-> 48, lng |-> 2]]
    /\ prov = [i \in DOMAIN Earlier |-> [missed |-> TRUE, geocoded |-> TRUE]]
    /\ resolved = {Earlier[i] : i \in DOMAIN Earlier}
    /\ recent = [i \in DOMAIN Earlier |-> Earlier[Len(Earlier) + 1 - i]]
    /\ first = [n \in AllNames |->
                  IF n \in {Earlier[i] : i \in DOMAIN Earlier}
                  THEN [lat |-> 48, lng |-> 2] ELSE NoLL]
    /\ geoOk = [n \in Names |-> IF n \in {Earlier[i] : i \in DOMAIN Earlier} THEN 1 ELSE 0]
    /\ pc = [t \in Tasks |-> "idle"]
    /\ city = [t \in Tasks |-> ""]
    /\ ll = [t \in Tasks |-> NoLL]
    /\ out = [t \in Tasks |-> NoLL]
    /\ cred = [t \in Tasks |-> NoCred]
    /\ conn = [t \in Tasks |-> FALSE]
    /\ geo = [t \in Tasks |-> NoGeo]
    /\ rows = [t \in Tasks |-> {}]
    /\ known = [t \in Tasks |-> FALSE]
    /\ calls = [t \in Tasks |-> NoCalls]
    /\ raced = {}
    /\ lost = {}
    /\ ret = NoRet
    /\ resp = NoResp
    /\ nreq = 0

StatsSpec == StatsInit /\ [][Next]_vars

\* A weather request that starts while no call of get_lat_long for the same
\* name is under way.
SerialWeather(t, n) ==
    /\ \A u \in Tasks : pc[u] \in {"lookup", "geocode", "insert"} => city[u] # n
    /\ Weather(t, n)

\* The executions in which no two calls of get_lat_long for the same name
\* overlap in time.
SerialNext ==
    \/ \E t \in Tasks, n \in Names : SerialWeather(t, n)
    \/ \E t \in Tasks : Lookup(t)
    \/ \E t \in Tasks : FetchLatLong(t)
    \/ \E t \in Tasks : Insert(t)
    \/ \E t \in Tasks : FetchWeather(t)
    \/ \E t \in Tasks, c \in Credentials : FromRequestParts(t, c)
    \/ \E t \in Tasks : Stats(t)

SerialSpec == Init /\ [][SerialNext]_vars

\* weather, fetch_weather(ll) completes with an answer of long series.
FetchLongWeather(t) ==
    /\ pc[t] = "forecast"
    /\ \E w \in LongWeatherResponse :
        Render(t, w, [calls[t] EXCEPT !.forecast = @ + 1])

\* One task serving weather requests whose forecast answers are drawn from
\* the long series: the inputs of WeatherView::new.
ZipNext ==
    \/ \E t \in {1}, n \in Names : Weather(t, n)
    \/ \E t \in {1} : Lookup(t)
    \/ \E t \in {1} : FetchLatLong(t)
    \/ \E t \in {1} : Insert(t)
    \/ \E t \in {1} : FetchLongWeather(t)

ZipSpec == Init /\ [][ZipNext]_vars

TypeOK ==
    /\ \A i \in DOMAIN store : store[i].name \in AllNames /\ RowLatLong(store[i]) \in LatLong
    /\ Len(prov) = Len(store)
    /\ \A t \in Tasks :
        /\ pc[t] \in {"idle", "lookup", "geocode", "insert", "forecast", "query"}
        /\ city[t] \in Names \cup {""}
        /\ ll[t] \in LatLong \cup {NoLL}
        /\ out[t] \in LatLong \cup {NoLL}
    /\ ret.res \in {"none", "Ok", "NoResultsFound", "Database"}
    /\ resp.err \in ErrorKinds \cup {"none"}
    /\ nreq \in 0..MaxReqs

(* ------------------------------ properties ----------------------------- *)

\* the rows of the table whose name is n
RowsOf(n) == {i \in DOMAIN store : store[i].name = n}

\* the row get_lat_long of the last step would have inserted
RetRow == [name |-> ret.name, lat |-> ret.out.lat, lng |-> ret.out.lng]

\* the last step returned from get_lat_long after a SELECT that succeeded
\* and found a row for the name
RetHit == ret.res # "none" /\ ret.faultAt # "lookup" /\ ret.rows # {}

\* C1 -- Idempotence: a call of get_lat_long(n) that starts after a call of
\* get_lat_long(n) has returned Ok never invokes the geocoding client: no
\* such task waits for or has received a geocoding response, and no such
\* call returns having made a geocoding call.
C1_Idempotence ==
    /\ \A t \in Tasks : known[t] => pc[t] \notin {"geocode", "insert"} /\ ~geo[t].called
    /\ ret.known => ret.calls.geocode = 0 /\ ~ret.geo.called

\* a call that started after a successful one for the same name has returned
\* its coordinates from the table
C1_Witness ==
    /\ ret.known
    /\ ret.res = "Ok"
    /\ ret.calls.lookup = 1
    /\ ret.name \in resolved

\* C2 (as stated) -- Cache hit: whenever the table holds (n, c) at the SELECT
\* of get_lat_long(n), the call returns exactly c.
C2_CacheHitExact ==
    RetHit => \A c \in ret.rows : ret.res = "Ok" /\ ret.out = c

\* C2 (amended) -- Cache hit: when the SELECT of get_lat_long(n) succeeds and
\* the table holds rows for n, the call returns Ok with the coordinates of
\* one of those rows (so exactly c when (n, c) is the only one), makes no
\* geocoding call, attempts no INSERT and leaves the table as it was.
C2_CacheHit ==
    RetHit =>
        /\ ret.res = "Ok"
        /\ ret.out \in ret.rows
        /\ ret.calls.geocode = 0
        /\ ~ret.geo.called
        /\ ret.calls.insert = 0
        /\ Len(store) = ret.size

\* a hit on a name with one row, and the coordinates of that row returned
C2_Witness ==
    /\ RetHit
    /\ Cardinality(RowsOf(ret.name)) = 1
    /\ \E i \in RowsOf(ret.name) : ret.out = [lat |-> store[i].lat, lng |-> store[i].lng]

\* C3 -- Miss-then-populate: when get_lat_long(n) finds no row for n, the
\* geocoding client answers with a non-empty candidate list and the INSERT
\* does not fail, the call returns Ok with the first candidate and the table
\* then has a row (n, first candidate); every name resolved so far keeps a row.
C3_MissThenPopulate ==
    /\ (/\ ret.res # "none"
        /\ ret.faultAt = "none"
        /\ ret.rows = {}
        /\ ret.geo.called /\ ret.geo.ok /\ ~ret.geo.empty)
       => /\ ret.res = "Ok"
          /\ ret.out = ret.geo.first
          /\ \E i \in DOMAIN store : store[i] = RetRow
    /\ \A n \in resolved : RowsOf(n) # {}

\* a call that missed, geocoded and stored has just returned
C3_Witness ==
    /\ ret.res = "Ok"
    /\ ret.rows = {}
    /\ ret.geo.called
    /\ ret.out = ret.geo.first
    /\ store[Len(store)] = RetRow

\* C4 -- No-match propagation: when the geocoding client yields no candidate
\* (a failed request or decoding, or an empty list), get_lat_long returns
\* NoResultsFound, no INSERT is attempted, the table has the rows it had and
\* the request ends with NoResultsFound; a task reaches the INSERT only with
\* a candidate.
C4_NoMatch ==
    /\ (ret.geo.called /\ (~ret.geo.ok \/ ret.geo.empty))
       => /\ ret.res = "NoResultsFound"
          /\ ret.out = NoLL
          /\ ret.calls.insert = 0
          /\ Len(store) = ret.size
          /\ resp.kind = "weather" /\ resp.err = "NoResultsFound"
    /\ \A t \in Tasks :
        pc[t] = "insert" => geo[t].ok /\ ~geo[t].empty /\ ll[t] = geo[t].first

\* the geocoding client answered with an empty list and the call returned
C4_Witness ==
    /\ ret.geo.called /\ ret.geo.ok /\ ret.geo.empty
    /\ ret.res = "NoResultsFound"
    /\ RowsOf(ret.name) = {}

\* C5 (as stated) -- in every reachable state the table has at most one row
\* per name.
C5_OneRecordPerName ==
    \A i, j \in DOMAIN store : store[i].name = store[j].name => i = j

\* C5 (amended) -- the table has at most one row for every name for which no
\* two calls of get_lat_long have been between their SELECT and their INSERT
\* at the same time; and every row was inserted by a call whose SELECT found
\* no row for the name.
C5_OneRecordUnlessRaced ==
    /\ \A n \in Names \ raced : Cardinality(RowsOf(n)) <= 1
    /\ \A i \in DOMAIN prov : prov[i].missed

\* a second call for a stored name that did not overlap the first has
\* returned, and the name still has one row
C5_Witness ==
    /\ ret.known
    /\ ret.res = "Ok"
    /\ ret.name \notin raced
    /\ Cardinality(RowsOf(ret.name)) = 1

\* C6 -- At-most-one-fetch-per-key is not guaranteed: an INSERT that meets no
\* storage fault is accepted also when the table already has a row of that
\* name; the call returns Ok and the table has one more row, the new one.
C6_DuplicateAccepted ==
    (ret.calls.insert = 1 /\ ret.faultAt = "none" /\ ret.dup)
    => /\ ret.res = "Ok"
       /\ Len(store) = ret.size + 1
       /\ store[Len(store)] = RetRow
       /\ Cardinality(RowsOf(ret.name)) >= 2

\* two calls for the same name both missed and both geocoded, and the
\* second INSERT has just been accepted
C6_Witness ==
    /\ ret.dup /\ ret.res = "Ok" /\ ret.geo.called /\ ret.rows = {}
    /\ ret.name \in raced
    /\ \E i, j \in RowsOf(ret.name) :
        /\ i < j
        /\ prov[i].missed /\ prov[i].geocoded
        /\ prov[j].missed /\ prov[j].geocoded

\* C7 -- Insert failure: when the INSERT of get_lat_long fails, the call
\* returns the Database error and no coordinates, the table has the rows it
\* had, the INSERT was attempted once, and the request ends there with the
\* Database error, without a forecast.
C7_InsertFailure ==
    ret.faultAt = "insert"
    => /\ ret.res = "Database"
       /\ ret.out = NoLL
       /\ Len(store) = ret.size
       /\ ret.calls.insert = 1
       /\ resp.kind = "weather" /\ resp.err = "Database"
       /\ resp.view = << >>
       /\ resp.calls.insert = 1 /\ resp.calls.forecast = 0

\* the INSERT failed after a successful geocoding call
C7_Witness ==
    /\ ret.faultAt = "insert"
    /\ ret.geo.called /\ ~ret.geo.empty
    /\ ret.res = "Database"

\* C8 -- Lookup failure: when the SELECT of get_lat_long fails, the call
\* returns the Database error without a geocoding call and without an INSERT,
\* the table has the rows it had and the request ends with the Database
\* error; a SELECT that succeeds and finds no row is not an error, the call
\* goes on to the geocoding client.
C8_LookupFailure ==
    /\ ret.faultAt = "lookup"
       => /\ ret.res = "Database"
          /\ ret.calls.geocode = 0 /\ ~ret.geo.called
          /\ ret.calls.insert = 0
          /\ Len(store) = ret.size
          /\ resp.kind = "weather" /\ resp.err = "Database"
    /\ (ret.res # "none" /\ ret.faultAt # "lookup" /\ ret.rows = {})
       => ret.geo.called /\ ret.calls.geocode = 1

\* the SELECT failed although the table has a row for the name
C8_Witness ==
    /\ ret.faultAt = "lookup"
    /\ ret.rows # {}
    /\ ret.res = "Database"

\* C9 -- Rows are never updated or deleted: every step leaves the table as
\* it is or appends one row, and a row is appended only by a call of
\* get_lat_long that missed and received a candidate, with its name and that
\* candidate.
C9_AppendOnly ==
    [][\/ store' = store
       \/ \E t \in Tasks :
            /\ pc[t] = "insert"
            /\ rows[t] = {}
            /\ geo[t].called /\ ~geo[t].empty
            /\ store' = Append(store, [name |-> city[t], lat |-> geo[t].first.lat,
                                       lng |-> geo[t].first.lng])]_vars

\* the table has two rows of one name and a later stats request has listed
\* the table
C9_Witness ==
    /\ \E i, j \in DOMAIN store : i # j /\ store[i].name = store[j].name
    /\ resp.kind = "stats" /\ resp.err = "none"

\* C10 -- Case sensitivity: get_lat_long(b) returns from the table only when
\* a row is stored under exactly b; otherwise it calls the geocoding client
\* with b as given and stores the result under b.
C10_CaseSensitive ==
    /\ (ret.res = "Ok" /\ ret.calls.geocode = 0) => ret.rows # {}
    /\ ret.geo.called => ret.geo.arg = ret.name
    /\ (ret.res = "Ok" /\ ret.geo.called) => store[Len(store)].name = ret.name
    /\ \A t \in Tasks : geo[t].called => geo[t].arg = city[t]

\* a row is stored under a name, and a call for a name that differs from it
\* only in case has missed, geocoded and stored a row of its own
C10_Witness ==
    /\ ret.res = "Ok" /\ ret.geo.called /\ ret.rows = {}
    /\ \E i \in DOMAIN store :
        /\ i < Len(store)
        /\ store[i].name # ret.name
        /\ Lower(store[i].name) = Lower(ret.name)
    /\ store[Len(store)] = RetRow

\* the one credential the access guard is meant to accept
IsExpectedPair(c) ==
    c = [header |-> "basic", username |-> "forecast", password |-> "forecast"]

\* C11 -- Access control: a stats request is granted exactly when its header
\* decodes to the expected username and password; with any other credential
\* (a wrong or empty username or password, no header, a malformed header) it
\* ends Unauthorized without the stats SELECT and without a city list, and
\* only a granted request reaches the SELECT.
C11_AccessControl ==
    /\ \A t \in Tasks : pc[t] = "query" => IsExpectedPair(cred[t])
    /\ resp.kind = "stats" =>
        /\ IsExpectedPair(resp.cred) <=> resp.err # "Unauthorized"
        /\ ~IsExpectedPair(resp.cred) => resp.calls.query = 0 /\ resp.view = << >>

\* a request with the right username and an empty password has been denied
\* while the table has a row to list
C11_Witness ==
    /\ resp.kind = "stats"
    /\ resp.cred = [header |-> "basic", username |-> "forecast", password |-> ""]
    /\ resp.err = "Unauthorized"
    /\ Len(store) > 0

\* C12 -- Forecasts are not cached and follow the resolution: a weather
\* request whose get_lat_long returned coordinates, from the table or from
\* the geocoding client, has called the forecast client once when it ends; a
\* request whose get_lat_long failed ends with NoResultsFound or Database
\* and without a forecast call; no forecast call is made before get_lat_long
\* has returned.
C12_ForecastAfterResolve ==
    /\ resp.kind = "weather" =>
        /\ resp.got => resp.calls.forecast = 1 /\ resp.err \in {"none", "FetchWeather"}
        /\ ~resp.got => resp.calls.forecast = 0 /\ resp.err \in {"NoResultsFound", "Database"}
    /\ \A t \in Tasks :
        /\ pc[t] \in {"lookup", "geocode", "insert"} => calls[t].forecast = 0 /\ out[t] = NoLL
        /\ pc[t] = "forecast" => out[t] # NoLL

\* a request for a city that was in the table has fetched a forecast
C12_Witness ==
    /\ resp.kind = "weather"
    /\ resp.got
    /\ resp.calls.geocode = 0
    /\ resp.calls.forecast = 1
    /\ resp.err = "none"

\* C13 -- No automatic retry: a call of get_lat_long runs its SELECT once
\* and the geocoding call and the INSERT at most once each, a weather request
\* calls the forecast client at most once, and the request ends in the step
\* in which a storage operation or an external call fails.
C13_NoRetry ==
    /\ \A t \in Tasks :
        /\ calls[t].lookup <= 1 /\ calls[t].geocode <= 1
        /\ calls[t].insert <= 1 /\ calls[t].forecast = 0
    /\ ret.res # "none" =>
        /\ ret.calls.lookup = 1 /\ ret.calls.geocode <= 1 /\ ret.calls.insert <= 1
        /\ ret.res # "Ok" => resp.kind = "weather" /\ resp.err = ret.res
    /\ resp.kind = "weather" =>
        /\ resp.calls.lookup = 1 /\ resp.calls.geocode <= 1
        /\ resp.calls.insert <= 1 /\ resp.calls.forecast <= 1
        /\ ~resp.wx.ok /\ resp.got => resp.err = "FetchWeather"

\* a forecast call has failed and the request has ended after that one call
C13_Witness ==
    /\ resp.kind = "weather"
    /\ resp.err = "FetchWeather"
    /\ resp.calls.forecast = 1
    /\ resp.calls.geocode = 1 /\ resp.calls.insert = 1

\* the shorter of two lengths
Shorter(a, b) == IF a < b THEN a ELSE b

\* C14 -- Series pairing: a successful forecast answer with the time series
\* T and the temperature series V is rendered, without an error, as the list
\* of length min(|T|, |V|) whose i-th element pairs T[i] with V[i]; what the
\* longer series has beyond that length is dropped.
C14_SeriesPairing ==
    (resp.kind = "weather" /\ resp.wx.ok) =>
        LET T == resp.wx.hourly.time
            V == resp.wx.hourly.temperature_2m
        IN  /\ resp.err = "none"
            /\ Len(resp.view) = Shorter(Len(T), Len(V))
            /\ \A i \in 1..Len(resp.view) :
                resp.view[i] = [date |-> T[i], temperature |-> V[i]]

\* series of different lengths have been rendered as a non-empty list
C14_Witness ==
    /\ resp.kind = "weather"
    /\ resp.wx.ok
    /\ Len(resp.wx.hourly.time) > Len(resp.wx.hourly.temperature_2m)
    /\ Len(resp.view) > 0
    /\ resp.view[1] = [date |-> "01:00", temperature |-> 9]
    /\ resp.err = "none"

\* C15 -- Denial challenge: a stats request without the expected credential
\* pair ends with Error::Unauthorized and no other outcome, and its response
\* has status 401 and a WWW-Authenticate header with the Basic scheme.
C15_DenialChallenge ==
    (resp.kind = "stats" /\ ~IsExpectedPair(resp.cred)) =>
        /\ resp.err = "Unauthorized"
        /\ resp.http.status = 401
        /\ \E h \in resp.http.headers :
            h.name = "www-authenticate" /\ h.scheme = "Basic"

\* a request without an Authorization header has been challenged
C15_Witness ==
    /\ resp.kind = "stats"
    /\ resp.cred.header = "absent"
    /\ resp.http.status = 401
    /\ Challenge \in resp.http.headers

\* C16 -- Distinct statuses: a response is either the rendered page or the
\* response of exactly one Error; the status of each Error differs from the
\* status of every other Error and from the status of the page; the body of
\* a Database response is the fixed text and not the text of the sqlx error,
\* which goes to the server's log only.
C16_DistinctStatuses ==
    resp.kind # "none" =>
        /\ resp.err \in ErrorKinds \cup {"none"}
        /\ resp.err = "none" <=> resp.http.status = 200
        /\ resp.err # "none" => resp.view = << >> /\ resp.http = IntoResponse(resp.err)
        /\ \A e \in ErrorKinds \ {resp.err} : IntoResponse(e).status # resp.http.status
        /\ resp.err = "Database" =>
            /\ resp.http.body = "internal server error"
            /\ resp.http.body # SqlxDetail
            /\ resp.http.log = SqlxDetail
        /\ resp.err # "Database" => resp.http.log = ""

\* a request has ended with a storage failure
C16_Witness ==
    /\ resp.kind = "weather"
    /\ resp.err = "Database"
    /\ resp.http.status = 500
    /\ resp.http.body = "internal server error"

\* pool connections in use
InUse == {t \in Tasks : conn[t]}

\* C18 -- Scoped connection use: a task has a pool connection only while one
\* of its statements (the SELECT, the INSERT, the stats query) is in flight;
\* it has none while it waits for the geocoding or the forecast client and
\* none after its request has ended, whatever the outcome of the statement;
\* with every task finished no connection is in use.
C18_ScopedConnections ==
    /\ \A t \in Tasks :
        /\ conn[t] <=> pc[t] \in {"lookup", "insert", "query"}
        /\ pc[t] \in {"geocode", "forecast", "idle"} => ~conn[t]
    /\ (\A t \in Tasks : pc[t] = "idle") => Cardinality(InUse) = 0
    /\ resp.kind # "none" => Cardinality(InUse) <= NumTasks - 1

\* one task waits for the geocoding client without a connection while the
\* statement of another task has one
C18_Witness ==
    \E t, u \in Tasks :
        /\ pc[t] = "geocode" /\ ~conn[t]
        /\ pc[u] = "insert" /\ conn[u]

\* C17 as stated -- an authorized stats request returns the (up to 10) names
\* for which get_lat_long has most recently returned Ok, the most recent
\* first.
C17_MostRecentlyResolved ==
    (resp.kind = "stats" /\ resp.err = "none") =>
        resp.view = SubSeq(recent, 1, Shorter(Len(recent), StatsLimit))

\* C17 -- Recently added cities: an authorized stats request whose query
\* succeeds returns the names of the (up to 10) rows inserted last, the newest
\* row first; a name served again from the table keeps the place of its row,
\* and a name with several rows is listed once for each.
C17_MostRecentlyInserted ==
    (resp.kind = "stats" /\ resp.err = "none") =>
        /\ IsExpectedPair(resp.cred)
        /\ Len(resp.view) = Shorter(Len(store), StatsLimit)
        /\ \A k \in 1..Len(resp.view) : resp.view[k] = store[Len(store) + 1 - k].name

\* the table has more rows than the query's LIMIT; the list has the newest
\* ten and not the oldest
C17_Witness ==
    /\ resp.kind = "stats"
    /\ resp.err = "none"
    /\ Len(store) > StatsLimit
    /\ Len(resp.view) = StatsLimit
    /\ resp.view[1] = "Paris"
    /\ \A k \in 1..Len(resp.view) : resp.view[k] # store[1].name

\* C19 as stated -- every call of get_lat_long(n) that returns Ok returns the
\* coordinates that the first call of get_lat_long(n) to return Ok returned,
\* in every interleaving and whatever the geocoding client answers.
C19_StableCoordinates ==
    /\ (ret.res = "Ok") => ret.out = first[ret.name]
    /\ \A t \in Tasks : pc[t] = "forecast" => out[t] = first[city[t]]

\* C19 -- Stable coordinates without a race: for a name for which no two
\* calls of get_lat_long have been between their SELECT and their INSERT at
\* the same time, every call that returns Ok returns the coordinates that the
\* first such call returned, whatever the geocoding client answers later.
C19_StableUnlessRaced ==
    /\ (ret.res = "Ok" /\ ret.name \notin raced) => ret.out = first[ret.name]
    /\ \A t \in Tasks :
        (pc[t] = "forecast" /\ city[t] \notin raced) => out[t] = first[city[t]]

\* a later call has returned the first coordinates from the table although
\* the geocoding client has answered twice for the name
C19_Witness ==
    /\ ret.res = "Ok"
    /\ ret.known
    /\ ret.calls.geocode = 0
    /\ ret.name \notin raced
    /\ geoOk[ret.name] = 2
    /\ ret.out = first[ret.name]

\* C20 as stated -- when no two calls of get_lat_long for the same name
\* overlap, the table has at most one row per name and the geocoding client
\* has yielded coordinates at most once for every name that has a row.
C20_OncePerRecordedName ==
    \A n \in Names :
        /\ Cardinality(RowsOf(n)) <= 1
        /\ RowsOf(n) # {} => geoOk[n] <= 1

\* C20 -- Lookup before insert without overlap: when no two calls of
\* get_lat_long for the same name overlap, the table has at most one row per
\* name, no geocoding call is made for a name that has a row, and the
\* geocoding client has yielded coordinates exactly once for every name that
\* has a row and for which no INSERT has failed; coordinates whose INSERT
\* fails are dropped and fetched again by the next call.
C20_OnceUnlessInsertFailed ==
    /\ \A n \in Names :
        /\ Cardinality(RowsOf(n)) <= 1
        /\ (RowsOf(n) # {} /\ n \notin lost) => geoOk[n] = 1
        /\ (RowsOf(n) = {} /\ n \notin lost) => geoOk[n] <= 1
    /\ \A t \in Tasks : pc[t] \in {"geocode", "insert"} => RowsOf(city[t]) = {}

\* a second call for a recorded name has returned from the table, the
\* geocoding client having been asked once
C20_Witness ==
    /\ ret.res = "Ok"
    /\ ret.known
    /\ ret.name \notin lost
    /\ geoOk[ret.name] = 1
    /\ Cardinality(RowsOf(ret.name)) = 1
    /\ \E n \in Names \ {ret.name} : n \in lost

====
